---- MODULE Spec2Model ----
(***************************************************************************)
(* Model of concurrent_swarm (src/src/main.rs, lines 37-94): a caller runs *)
(* the executor one or two times against the same output file.  Each call  *)
(* creates a bounded mpsc channel, creates (truncates) the output file     *)
(* behind a std Mutex, spawns n tokio tasks, drops its own sender and      *)
(* drains the channel.  Each task awaits the callable, builds its log      *)
(* entry, appends it to the file under the lock (writeln! issues one       *)
(* write_all for the text and one for the newline), and sends its result.  *)
(* An unwrap() on a failed File::create, lock() or writeln! is a panic of  *)
(* the function or of the task that executes it.                           *)
(***************************************************************************)
EXTENDS Integers, Sequences, FiniteSets, TLC

\* Largest width n of a call made on its own.
MaxN == 3
\* Largest width of each call when the caller makes two calls in a row.
MaxRerunN == 2
\* Largest width of the call in the runs checked under fair scheduling.
MaxLiveN == 2
\* Largest number of files handed to create_multiple_files.
MaxFiles == 3

Widths == 0..MaxN
RerunWidths == 0..MaxRerunN
MaxWidth == IF MaxN > MaxRerunN THEN MaxN ELSE MaxRerunN
\* Launch indices i of `for i in 0..n`.
TaskIds == 0..(MaxWidth - 1)
LiveWidths == 0..MaxLiveN
\* Positions in the Vec `files` of create_multiple_files.
FileIds == 1..MaxFiles

VARIABLES
    script,    \* the caller: the widths of the calls it makes, in order
    run,       \* number of calls made so far (0 before the first)
    created,   \* the Result of File::create in the current call
    pc,        \* position of concurrent_swarm
    n,         \* argument n of the current call
    cap,       \* buffer size of the channel created by mpsc::channel(n)
    i,         \* loop variable of the spawn loop
    txMain,    \* the function's own Sender `tx` is alive
    txClones,  \* tasks whose clone of `tx` is alive
    rxAlive,   \* the Receiver `rx` is alive
    chan,      \* results buffered in the channel, oldest first
    results,   \* the Vec `results`
    file,      \* content of output_file: the pieces written so far
    inCS,      \* tasks that hold a MutexGuard of `file`
    poisoned,  \* the Mutex is poisoned
    tpc,       \* position of each task
    tres,      \* `result` of each task ("None" until the future completes)
    calls,     \* number of invocations of the callable in the current call
    warned,    \* warn!("Failed to send result to the receiver") was executed
    arrived,   \* launch indices in the order their sends entered the channel
    \* create_multiple_files (src/src/file_utils.rs)
    nfiles,    \* length of the argument `files`
    fpc,       \* position of create_multiple_files
    fnext,     \* number of items the iterator `handles` has produced
    ftask,     \* position of the task spawned for each file
    fres,      \* what create_file returned in each task ("None" before)
    folder,    \* the folder exists
    fbig,      \* the content of each file is longer than the File's buffer
    fop,       \* the blocking write of each File: "none", the chunk it
               \* carries while pending ("first", "last"), or its result
    disk,      \* each file on disk: "absent", "empty", "partial", "written"
    flogged,   \* files for which error!("Failed to create file ..") ran
    fret       \* what create_multiple_files returned ("None" before)

swarmVars == <<script, run, created, pc, n, cap, i, txMain, txClones, rxAlive,
               chan, results, file, inCS, poisoned, tpc, tres, calls, warned,
               arrived>>
fileVars == <<nfiles, fpc, fnext, ftask, fres, folder, fbig, fop, disk,
              flogged, fret>>
vars == <<swarmVars, fileVars>>

----------------------------------------------------------------------------
(* Pure parts of the code.                                                 *)

\* json!({"task": i + 1, "status": ...}) of lines 62-73, for launch index
\* idx and callable result r; `run` stands for the payload, which is what
\* tells the lines of one call from those of another.
LogEntry(r, idx, res) ==
    [run |-> r, task |-> idx + 1,
     status |-> IF res = "Ok" THEN "success" ELSE "error"]

\* The pieces writeln!(file, "{}", s) hands to write_all: the text of the
\* entry, then "\n".  A write_all that fails may have written a prefix.
\* `by` records the launch index of the task that issued the write.
Body(e, t) ==
    [kind |-> "body", by |-> t, run |-> e.run, task |-> e.task, status |-> e.status]
Part(e, t) ==
    [kind |-> "part", by |-> t, run |-> e.run, task |-> e.task, status |-> e.status]
Newline == [kind |-> "nl", by |-> 0, run |-> 0, task |-> 0, status |-> ""]

\* Reading the file back line by line: the lines that end in "\n", in
\* order, each as the sequence of pieces before its newline.
RECURSIVE LinesFrom(_, _)
LinesFrom(f, cur) ==
    IF f = <<>> THEN <<>>
    ELSE IF Head(f).kind = "nl"
         THEN <<cur>> \o LinesFrom(Tail(f), <<>>)
         ELSE LinesFrom(Tail(f), Append(cur, Head(f)))
Lines(f) == LinesFrom(f, <<>>)

\* What follows the last "\n" of the file.
RECURSIVE TailFrom(_, _)
TailFrom(f, cur) ==
    IF f = <<>> THEN cur
    ELSE IF Head(f).kind = "nl"
         THEN TailFrom(Tail(f), <<>>)
         ELSE TailFrom(Tail(f), Append(cur, Head(f)))
Unterminated(f) == TailFrom(f, <<>>)

\* A line parses as one JSON object iff it is exactly the text of one entry.
IsEntryLine(l) == Len(l) = 1 /\ l[1].kind = "body"

\* mpsc::channel(buffer) asserts buffer > 0 (line 48).
ChannelBufferOk(buffer) == buffer > 0

\* mpsc::channel(n): the buffer holds n messages (line 48).
CapacityOne(width) == 1
Capacity(width) == width

\* File::create truncates an existing file (line 51).
TruncateAppendMode(f) == f
Truncate(f) == <<>>

\* File::create(output_file).unwrap() (line 51): where the function goes on.
AfterOpenIgnoringError(ok) == "spawn"
AfterOpen(ok) == IF ok THEN "spawn" ELSE "panicked"

\* file.lock() (line 77) is acquired only while no other guard exists.
CanLockUnguarded(holders) == TRUE
CanLock(holders) == holders = {}

\* file.lock().unwrap() (line 77) panics iff the Mutex is poisoned.
LockIgnoresPoison(p) == FALSE
LockPanics(p) == p

\* End of the block of lines 76-79: the MutexGuard is dropped.
KeepGuard(holders, t) == holders
DropGuard(holders, t) == holders \ {t}

\* results.push(result) (line 90).
PushFront(v, x) == <<x>> \o v
Push(v, x) == Append(v, x)

\* rx.recv() returns None when the buffer is empty and every Sender has been
\* dropped (line 89).
RecvClosedIgnoringClones(buf, main, clones) == buf = <<>> /\ ~main
RecvClosedOnMainDrop(buf, main, clones) == ~main
RecvClosedWhenEmpty(buf, main, clones) == buf = <<>>
RecvClosed(buf, main, clones) == buf = <<>> /\ ~main /\ clones = {}

\* Program order of the task body (lines 61-84).
TaskNextPcSendFirst(p) ==
    CASE p = "start" -> "await"
      [] p = "await" -> "send"
      [] p = "send"  -> "lock"
      [] p = "lock"  -> "body"
      [] p = "body"  -> "nl"
      [] OTHER       -> "done"
TaskNextPc(p) ==
    CASE p = "start" -> "await"
      [] p = "await" -> "lock"
      [] p = "lock"  -> "body"
      [] p = "body"  -> "nl"
      [] p = "nl"    -> "send"
      [] OTHER       -> "done"

----------------------------------------------------------------------------
\* create_multiple_files has not been called.
FilesIdle ==
    /\ nfiles = 0
    /\ fpc = "idle"
    /\ fnext = 0
    /\ ftask = [k \in FileIds |-> "unspawned"]
    /\ fres = [k \in FileIds |-> "None"]
    /\ folder = FALSE
    /\ fbig = [k \in FileIds |-> FALSE]
    /\ fop = [k \in FileIds |-> "none"]
    /\ disk = [k \in FileIds |-> "absent"]
    /\ flogged = {}
    /\ fret = "None"

Init ==
    /\ script \in {<<w>> : w \in Widths}
                 \cup {<<w1, w2>> : w1 \in RerunWidths, w2 \in RerunWidths}
    /\ run = 0
    /\ created = "None"
    /\ pc = "idle"
    /\ n = 0
    /\ cap = 0
    /\ i = 0
    /\ txMain = FALSE
    /\ txClones = {}
    /\ rxAlive = FALSE
    /\ chan = <<>>
    /\ results = <<>>
    /\ file = <<>>
    /\ inCS = {}
    /\ poisoned = FALSE
    /\ tpc = [t \in TaskIds |-> "unspawned"]
    /\ tres = [t \in TaskIds |-> "None"]
    /\ calls = 0
    /\ warned = FALSE
    /\ arrived = <<>>
    /\ FilesIdle

\* The caller invokes concurrent_swarm(callable, n, client, output_file):
\* lines 48-49.  A second call is made only after the first has returned;
\* it gets a channel, a Mutex and tasks of its own, and only the content of
\* output_file is carried over from the first call.
Call ==
    /\ pc \in {"idle", "returned"}
    /\ run < Len(script)
    /\ run' = run + 1
    /\ n' = script[run + 1]
    /\ created' = "None"
    /\ i' = 0
    /\ chan' = <<>>
    /\ results' = <<>>
    /\ inCS' = {}
    /\ poisoned' = FALSE
    /\ tpc' = [t \in TaskIds |-> "unspawned"]
    /\ tres' = [t \in TaskIds |-> "None"]
    /\ calls' = 0
    /\ txClones' = {}
    /\ IF ChannelBufferOk(script[run + 1])
       THEN /\ pc' = "open"
            /\ cap' = Capacity(script[run + 1])
            /\ txMain' = TRUE
            /\ rxAlive' = TRUE
       ELSE /\ pc' = "panicked"
            /\ cap' = 0
            /\ txMain' = FALSE
            /\ rxAlive' = FALSE
    /\ arrived' = <<>>
    /\ UNCHANGED <<script, file, warned>>
    /\ UNCHANGED fileVars

\* Line 51: File::create(output_file).unwrap().
OpenSink ==
    /\ pc = "open"
    /\ \E ok \in BOOLEAN :
        /\ created' = IF ok THEN "Ok" ELSE "Err"
        /\ pc' = AfterOpen(ok)
        /\ file' = IF ok THEN Truncate(file) ELSE file
        /\ txMain' = (AfterOpen(ok) # "panicked")
        /\ rxAlive' = (AfterOpen(ok) # "panicked")
    /\ UNCHANGED <<script, run, n, cap, i, txClones, chan, results, inCS,
                   poisoned, tpc, tres, calls, warned>>
    /\ UNCHANGED <<arrived, fileVars>>

\* Lines 54-60: one iteration of the spawn loop.
Spawn ==
    /\ pc = "spawn"
    /\ i < n
    /\ tpc' = [tpc EXCEPT ![i] = "start"]
    /\ txClones' = txClones \cup {i}
    /\ i' = i + 1
    /\ UNCHANGED <<script, run, created, pc, n, cap, txMain, rxAlive, chan,
                   results, file, inCS, poisoned, tres, calls, warned>>
    /\ UNCHANGED <<arrived, fileVars>>

\* Line 87: drop(tx), after the loop.
DropTxForgotten ==
    /\ pc = "spawn"
    /\ i >= n
    /\ pc' = "recv"
    /\ UNCHANGED <<script, run, created, n, cap, i, txMain, txClones, rxAlive,
                   chan, results, file, inCS, poisoned, tpc, tres, calls,
                   warned, arrived, fileVars>>
DropTx ==
    /\ pc = "spawn"
    /\ i >= n
    /\ txMain' = FALSE
    /\ pc' = "recv"
    /\ UNCHANGED <<script, run, created, n, cap, i, txClones, rxAlive, chan, results,
                   file, inCS, poisoned, tpc, tres, calls, warned>>
    /\ UNCHANGED <<arrived, fileVars>>

\* Lines 89-93: one rx.recv().await; Some(result) is pushed, None returns.
Recv ==
    /\ pc = "recv"
    /\ IF RecvClosed(chan, txMain, txClones)
       THEN /\ pc' = "returned"
            /\ rxAlive' = FALSE
            /\ UNCHANGED <<chan, results>>
       ELSE /\ chan # <<>>
            /\ results' = Push(results, Head(chan))
            /\ chan' = Tail(chan)
            /\ UNCHANGED <<pc, rxAlive>>
    /\ UNCHANGED <<script, run, created, n, cap, i, txMain, txClones, file, inCS,
                   poisoned, tpc, tres, calls, warned>>
    /\ UNCHANGED <<arrived, fileVars>>

\* Line 61, callable(client): the task, polled for the first time, invokes
\* the callable and is suspended at .await until the future completes.
TaskInvoke(t) ==
    /\ tpc[t] = "start"
    /\ tpc' = [tpc EXCEPT ![t] = TaskNextPc("start")]
    /\ calls' = calls + 1
    /\ UNCHANGED <<script, run, created, pc, n, cap, i, txMain, txClones,
                   rxAlive, chan, results, file, inCS, poisoned, tres, warned>>
    /\ UNCHANGED <<arrived, fileVars>>

\* Lines 61-73: the awaited future completes and log_entry is built.  The
\* future yields Ok or Err, or panics (call_openai_api does, at line 119,
\* when OPENAI_API_KEY is unset); json! of the Ok branch unwraps
\* serde_json::to_value(response) and panics when the response cannot be
\* made a JSON value.  A task that panics here holds no guard: it ends with
\* no entry and no send, and its Sender clone is dropped.
TaskCallReturnsWithRetry(t) ==
    /\ tpc[t] = "await"
    /\ \/ /\ UNCHANGED tres
          /\ tpc' = [tpc EXCEPT ![t] = "panicked"]
          /\ txClones' = txClones \ {t}
       \/ /\ tres' = [tres EXCEPT ![t] = "Err"]
          /\ tpc' = [tpc EXCEPT ![t] = IF tres[t] = "None"
                                       THEN "start" ELSE TaskNextPc("await")]
          /\ UNCHANGED txClones
       \/ /\ tres' = [tres EXCEPT ![t] = "Ok"]
          /\ \E serialisable \in BOOLEAN :
              IF serialisable
              THEN /\ tpc' = [tpc EXCEPT ![t] = TaskNextPc("await")]
                   /\ UNCHANGED txClones
              ELSE /\ tpc' = [tpc EXCEPT ![t] = "panicked"]
                   /\ txClones' = txClones \ {t}
    /\ UNCHANGED <<script, run, created, pc, n, cap, i, txMain, rxAlive, chan,
                   results, file, inCS, poisoned, calls, warned, arrived,
                   fileVars>>
TaskCallReturns(t) ==
    /\ tpc[t] = "await"
    /\ \/ /\ UNCHANGED tres
          /\ tpc' = [tpc EXCEPT ![t] = "panicked"]
          /\ txClones' = txClones \ {t}
       \/ /\ tres' = [tres EXCEPT ![t] = "Err"]
          /\ tpc' = [tpc EXCEPT ![t] = TaskNextPc("await")]
          /\ UNCHANGED txClones
       \/ /\ tres' = [tres EXCEPT ![t] = "Ok"]
          /\ \E serialisable \in BOOLEAN :
              IF serialisable
              THEN /\ tpc' = [tpc EXCEPT ![t] = TaskNextPc("await")]
                   /\ UNCHANGED txClones
              ELSE /\ tpc' = [tpc EXCEPT ![t] = "panicked"]
                   /\ txClones' = txClones \ {t}
    /\ UNCHANGED <<script, run, created, pc, n, cap, i, txMain, rxAlive, chan,
                   results, file, inCS, poisoned, calls, warned>>
    /\ UNCHANGED <<arrived, fileVars>>

\* Line 77: file.lock().unwrap(); a poisoned Mutex makes unwrap panic, and
\* the unwinding task drops its guard and its Sender.
TaskLock(t) ==
    /\ tpc[t] = "lock"
    /\ CanLock(inCS)
    /\ IF LockPanics(poisoned)
       THEN /\ tpc' = [tpc EXCEPT ![t] = "panicked"]
            /\ txClones' = txClones \ {t}
            /\ UNCHANGED inCS
       ELSE /\ tpc' = [tpc EXCEPT ![t] = TaskNextPc("lock")]
            /\ inCS' = inCS \cup {t}
            /\ UNCHANGED txClones
    /\ UNCHANGED <<script, run, created, pc, n, cap, i, txMain, rxAlive, chan, results,
                   file, poisoned, tres, calls, warned>>
    /\ UNCHANGED <<arrived, fileVars>>

\* Line 78, first write_all of writeln!: the text of the entry.  On an
\* error unwrap panics while the guard is held, which poisons the Mutex.
TaskWriteBody(t) ==
    /\ tpc[t] = "body"
    /\ \E w \in {"ok", "fail", "short"} :
        IF w = "ok"
        THEN /\ file' = Append(file, Body(LogEntry(run, t, tres[t]), t))
             /\ tpc' = [tpc EXCEPT ![t] = TaskNextPc("body")]
             /\ UNCHANGED <<inCS, poisoned, txClones>>
        ELSE /\ file' = IF w = "short"
                        THEN Append(file, Part(LogEntry(run, t, tres[t]), t))
                        ELSE file
             /\ tpc' = [tpc EXCEPT ![t] = "panicked"]
             /\ poisoned' = TRUE
             /\ inCS' = inCS \ {t}
             /\ txClones' = txClones \ {t}
    /\ UNCHANGED <<script, run, created, pc, n, cap, i, txMain, rxAlive, chan, results,
                   tres, calls, warned>>
    /\ UNCHANGED <<arrived, fileVars>>

\* Lines 78-79, second write_all of writeln!: the newline; then the guard
\* is dropped at the end of the block.
TaskWriteNewline(t) ==
    /\ tpc[t] = "nl"
    /\ \E ok \in BOOLEAN :
        IF ok
        THEN /\ file' = Append(file, Newline)
             /\ tpc' = [tpc EXCEPT ![t] = TaskNextPc("nl")]
             /\ inCS' = DropGuard(inCS, t)
             /\ UNCHANGED <<poisoned, txClones>>
        ELSE /\ tpc' = [tpc EXCEPT ![t] = "panicked"]
             /\ poisoned' = TRUE
             /\ inCS' = inCS \ {t}
             /\ txClones' = txClones \ {t}
             /\ UNCHANGED file
    /\ UNCHANGED <<script, run, created, pc, n, cap, i, txMain, rxAlive, chan, results,
                   tres, calls, warned>>
    /\ UNCHANGED <<arrived, fileVars>>

\* Lines 81-84: tx.send(result).await waits for a free slot; it fails, and
\* the task warns, when the Receiver is gone.  The async block then ends and
\* the captured Sender clone is dropped.
TaskSend(t) ==
    /\ tpc[t] = "send"
    /\ IF rxAlive
       THEN /\ Len(chan) < cap
            /\ chan' = Append(chan, [task |-> t, res |-> tres[t]])
            /\ arrived' = Append(arrived, t)
            /\ UNCHANGED warned
       ELSE /\ warned' = TRUE
            /\ UNCHANGED <<chan, arrived>>
    /\ tpc' = [tpc EXCEPT ![t] = TaskNextPc("send")]
    /\ txClones' = txClones \ {t}
    /\ UNCHANGED <<script, run, created, pc, n, cap, i, txMain, rxAlive,
                   results, file, inCS, poisoned, tres, calls>>
    /\ UNCHANGED fileVars

Next ==
    \/ Call
    \/ OpenSink
    \/ Spawn
    \/ DropTx
    \/ Recv
    \/ \E t \in TaskIds : TaskInvoke(t)
    \/ \E t \in TaskIds : TaskCallReturns(t)
    \/ \E t \in TaskIds : TaskLock(t)
    \/ \E t \in TaskIds : TaskWriteBody(t)
    \/ \E t \in TaskIds : TaskWriteNewline(t)
    \/ \E t \in TaskIds : TaskSend(t)

Spec == Init /\ [][Next]_vars

\* One call of width at most MaxLiveN, run by the multi-threaded tokio
\* runtime of #[tokio::main] (line 144): the function and every spawned task
\* keep being polled while they can take a step, and every awaited callable
\* completes.
LiveInit == Init /\ script \in {<<w>> : w \in LiveWidths}
Fairness ==
    /\ WF_vars(OpenSink)
    /\ WF_vars(Spawn)
    /\ WF_vars(DropTx)
    /\ WF_vars(Recv)
    /\ \A t \in TaskIds :
        /\ WF_vars(TaskInvoke(t))
        /\ WF_vars(TaskCallReturns(t))
        /\ WF_vars(TaskLock(t))
        /\ WF_vars(TaskWriteBody(t))
        /\ WF_vars(TaskWriteNewline(t))
        /\ WF_vars(TaskSend(t))
FairSpec == LiveInit /\ [][Next]_vars /\ Fairness

----------------------------------------------------------------------------
(* create_multiple_files (src/src/file_utils.rs, lines 20-96).  `handles`   *)
(* is the lazy iterator files.into_iter().map(..): its closure, and with it *)
(* task::spawn, runs when the for loop of line 91 asks for the next item.   *)

\* concurrent_swarm has not been called.
SwarmIdle ==
    /\ script = <<>>
    /\ run = 0
    /\ created = "None"
    /\ pc = "idle"
    /\ n = 0
    /\ cap = 0
    /\ i = 0
    /\ txMain = FALSE
    /\ txClones = {}
    /\ rxAlive = FALSE
    /\ chan = <<>>
    /\ results = <<>>
    /\ file = <<>>
    /\ inCS = {}
    /\ poisoned = FALSE
    /\ tpc = [t \in TaskIds |-> "unspawned"]
    /\ tres = [t \in TaskIds |-> "None"]
    /\ calls = 0
    /\ warned = FALSE
    /\ arrived = <<>>

\* A caller is about to call create_multiple_files(folder_name, files) with
\* up to MaxFiles files of distinct names, the folder existing or not, each
\* content fitting the buffer of a tokio File or not.
FilesInit ==
    /\ SwarmIdle
    /\ nfiles \in 0..MaxFiles
    /\ folder \in BOOLEAN
    /\ fbig \in {b \in [FileIds -> BOOLEAN] : \A k \in FileIds : k > nfiles => ~b[k]}
    /\ fop = [k \in FileIds |-> "none"]
    /\ fpc = "idle"
    /\ fnext = 0
    /\ ftask = [k \in FileIds |-> "unspawned"]
    /\ fres = [k \in FileIds |-> "None"]
    /\ disk = [k \in FileIds |-> "absent"]
    /\ flogged = {}
    /\ fret = "None"

\* Lines 84-86: create_file returned Err(e) in the task of file k; the task
\* logs it and ends.
TaskFails(k) ==
    /\ fres' = [fres EXCEPT ![k] = "Err"]
    /\ flogged' = flogged \cup {k}
    /\ ftask' = [ftask EXCEPT ![k] = "done"]

\* Lines 58-60 and 84: create_file returns Ok(()) and the task ends.
TaskSucceeds(k) ==
    /\ fres' = [fres EXCEPT ![k] = "Ok"]
    /\ ftask' = [ftask EXCEPT ![k] = "done"]
    /\ UNCHANGED flogged

\* Lines 79-88: the Arc and the iterator `handles` are built; no task yet.
FilesCall ==
    /\ fpc = "idle"
    /\ fpc' = "loop"
    /\ UNCHANGED <<nfiles, fnext, ftask, fres, folder, fbig, fop, disk,
                   flogged, fret>>
    /\ UNCHANGED swarmVars

\* Line 91, `for handle in handles`: the iterator yields its next item,
\* which runs the closure of lines 81-88 and spawns the task of that file.
FilesNextHandle ==
    /\ fpc = "loop"
    /\ fnext < nfiles
    /\ fnext' = fnext + 1
    /\ ftask' = [ftask EXCEPT ![fnext + 1] = "folder"]
    /\ fpc' = "await"
    /\ UNCHANGED <<nfiles, fres, folder, fbig, fop, disk, flogged, fret>>
    /\ UNCHANGED swarmVars

\* Line 92: handle.await.unwrap() completes when the task has ended.
FilesJoinPropagating ==
    /\ fpc = "await"
    /\ ftask[fnext] = "done"
    /\ IF fres[fnext] = "Err"
       THEN fpc' = "returned" /\ fret' = "Err"
       ELSE fpc' = "loop" /\ fret' = fret
    /\ UNCHANGED <<nfiles, fnext, ftask, fres, folder, fbig, fop, disk, flogged>>
    /\ UNCHANGED swarmVars
FilesJoin ==
    /\ fpc = "await"
    /\ ftask[fnext] = "done"
    /\ fpc' = "loop"
    /\ UNCHANGED <<nfiles, fnext, ftask, fres, folder, fbig, fop, disk,
                   flogged, fret>>
    /\ UNCHANGED swarmVars

\* Lines 91-95: the iterator is exhausted; Ok(()) is returned.
FilesReturn ==
    /\ fpc = "loop"
    /\ fnext >= nfiles
    /\ fret' = "Ok"
    /\ fpc' = "returned"
    /\ UNCHANGED <<nfiles, fnext, ftask, fres, folder, fbig, fop, disk, flogged>>
    /\ UNCHANGED swarmVars

\* Lines 49-53 and 20-29: create_folder; create_dir_all runs only if the
\* folder does not exist, and may fail.
FileEnsureFolder(k) ==
    /\ ftask[k] = "folder"
    /\ IF folder
       THEN /\ ftask' = [ftask EXCEPT ![k] = "create"]
            /\ UNCHANGED <<folder, fres, flogged>>
       ELSE \E ok \in BOOLEAN :
            IF ok
            THEN /\ folder' = TRUE
                 /\ ftask' = [ftask EXCEPT ![k] = "create"]
                 /\ UNCHANGED <<fres, flogged>>
            ELSE /\ TaskFails(k)
                 /\ UNCHANGED folder
    /\ UNCHANGED <<nfiles, fpc, fnext, fbig, fop, disk, fret>>
    /\ UNCHANGED swarmVars

\* Line 56: tokio_fs::File::create(file_path).await?
FileCreate(k) ==
    /\ ftask[k] = "create"
    /\ \E ok \in BOOLEAN :
        IF ok
        THEN /\ disk' = [disk EXCEPT ![k] = "empty"]
             /\ ftask' = [ftask EXCEPT ![k] = "write"]
             /\ UNCHANGED <<fres, flogged>>
        ELSE /\ TaskFails(k)
             /\ UNCHANGED disk
    /\ UNCHANGED <<nfiles, fpc, fnext, folder, fbig, fop, fret>>
    /\ UNCHANGED swarmVars

\* Lines 57-60, file.write_all(content).await?: the first write of a tokio
\* File copies what fits into the File's buffer, hands the buffer to a
\* blocking-pool thread and returns Ok at once; nothing is on disk yet.  If
\* the whole content fitted, write_all returns Ok and create_file returns
\* Ok(()) with no flush: the File is dropped and nothing waits for the
\* write.  Otherwise write_all goes on to write the rest.
FileWrite(k) ==
    /\ ftask[k] = "write"
    /\ IF fbig[k]
       THEN /\ fop' = [fop EXCEPT ![k] = "first"]
            /\ ftask' = [ftask EXCEPT ![k] = "rest"]
            /\ UNCHANGED <<fres, flogged>>
       ELSE /\ fop' = [fop EXCEPT ![k] = "last"]
            /\ TaskSucceeds(k)
    /\ UNCHANGED <<nfiles, fpc, fnext, folder, fbig, disk, fret>>
    /\ UNCHANGED swarmVars

\* Lines 57-60, write_all of a content that did not fit: the next write
\* waits for the pending blocking write and returns its error, if any;
\* else it hands over the rest as before and returns Ok.
FileWriteRest(k) ==
    /\ ftask[k] = "rest"
    /\ fop[k] \in {"ok", "err"}
    /\ IF fop[k] = "err"
       THEN /\ TaskFails(k)
            /\ fop' = [fop EXCEPT ![k] = "none"]
       ELSE /\ fop' = [fop EXCEPT ![k] = "last"]
            /\ TaskSucceeds(k)
    /\ UNCHANGED <<nfiles, fpc, fnext, folder, fbig, disk, fret>>
    /\ UNCHANGED swarmVars

\* Line 57, the blocking write handed over by write_all: a blocking-pool
\* thread writes the buffer to the file, at any time after the hand-over,
\* be it after the task has ended or after create_multiple_files has
\* returned.  It may fail, having written nothing or a part; the result of
\* the last one is read by nobody.
FileWriteBack(k) ==
    /\ fop[k] \in {"first", "last"}
    /\ \E w \in {"ok", "fail", "short"} :
        /\ fop' = [fop EXCEPT ![k] = IF w = "ok" THEN "ok" ELSE "err"]
        /\ disk' = [disk EXCEPT ![k] =
                       CASE w = "ok" /\ fop[k] = "last" -> "written"
                         [] w = "fail"                  -> disk[k]
                         [] OTHER                       -> "partial"]
    /\ UNCHANGED <<nfiles, fpc, fnext, ftask, fres, folder, fbig, flogged, fret>>
    /\ UNCHANGED swarmVars

FilesNext ==
    \/ FilesCall
    \/ FilesNextHandle
    \/ FilesJoin
    \/ FilesReturn
    \/ \E k \in FileIds : FileEnsureFolder(k)
    \/ \E k \in FileIds : FileCreate(k)
    \/ \E k \in FileIds : FileWrite(k)
    \/ \E k \in FileIds : FileWriteRest(k)
    \/ \E k \in FileIds : FileWriteBack(k)

FilesSpec == FilesInit /\ [][FilesNext]_vars

----------------------------------------------------------------------------
(* Vocabulary of the properties.                                           *)

\* Launch indices of the tasks of the current call.
Launched == 0..(n - 1)
\* The whole log entries among the lines ls, as a set of line numbers.
EntryPositions(ls) == {k \in 1..Len(ls) : IsEntryLine(ls[k])}
\* The whole log entries among the lines ls, as a set.
Entries(ls) == {ls[k][1] : k \in EntryPositions(ls)}
\* Some write to the file has failed in the current call: the failing
\* unwrap panics under the guard, which is the only way the Mutex is poisoned.
SinkFailed == poisoned
\* Outcomes of the Result Collection / entries of the file / invocations, by kind.
NumResults(r) == Cardinality({k \in 1..Len(results) : results[k].res = r})
NumEntries(ls, s) == Cardinality({k \in EntryPositions(ls) : ls[k][1].status = s})
NumInvocations(r) == Cardinality({t \in Launched : tres[t] = r})
\* A task that has been spawned and is neither finished nor aborted.
Running(t) == tpc[t] \in {"start", "await", "lock", "body", "nl", "send"}
\* Tasks whose awaited future has completed with a result.
Completed == {t \in TaskIds : tres[t] # "None"}

----------------------------------------------------------------------------
\* C1 (as claimed): when a call of width n >= 1 returns, every invocation
\* having produced Ok or Err and no write to the file having failed, the
\* returned Vec has exactly n results and holds the result of each launched
\* task exactly once.
C1_ExactlyNOutcomes ==
    (pc = "returned" /\ n >= 1 /\ ~SinkFailed /\ Launched \subseteq Completed) =>
        /\ Len(results) = n
        /\ \A t \in Launched :
              Cardinality({k \in 1..Len(results) : results[k].task = t}) = 1
        /\ \A k \in 1..Len(results) : results[k].res = tres[results[k].task]

\* C2 (as claimed): a call with n = 0 is a no-op that goes on to create the
\* file and returns normally with an empty Vec and an empty file.
C2_ZeroWidthIsNoOp ==
    (run >= 1 /\ n = 0) =>
        /\ pc \in {"open", "spawn", "recv", "returned"}
        /\ pc = "returned" => (results = <<>> /\ file = <<>> /\ created = "Ok")

\* C3 (as claimed): when a call returns and no write to the file failed, the file holds
\* exactly n lines, each a whole entry, whose task fields are exactly 1..n,
\* and each entry's task field is the launch index of its writer plus one.
C3_SinkEntries ==
    (pc = "returned" /\ ~SinkFailed) =>
        LET ls == Lines(file) IN
        /\ Unterminated(file) = <<>>
        /\ Len(ls) = n
        /\ EntryPositions(ls) = 1..n
        /\ {e.task : e \in Entries(ls)} = 1..n
        /\ \A e \in Entries(ls) : e.task = e.by + 1

\* C4: every result that is in the channel or in the Vec belongs to a task
\* whose entry, with the status of that result, is already a whole line of
\* the file and which no longer holds the guard; and a task that is about
\* to send has already written its whole entry and dropped the guard.
C4_LoggedBeforeReturned ==
    LET outs == {chan[k] : k \in 1..Len(chan)}
                   \cup {results[k] : k \in 1..Len(results)}
        senders == {t \in TaskIds : tpc[t] = "send"}
    IN
    (outs # {} \/ senders # {}) =>
        LET es == Entries(Lines(file)) IN
        /\ \A o \in outs :
              /\ o.task \notin inCS
              /\ \E e \in es :
                    /\ e.by = o.task /\ e.run = run /\ e.task = o.task + 1
                    /\ e.status = (IF o.res = "Ok" THEN "success" ELSE "error")
        /\ \A t \in senders :
              /\ t \notin inCS
              /\ \E e \in es : e.by = t /\ e.run = run /\ e.task = t + 1

\* One result is buffered in the channel and one already received while
\* another task is still inside its write.
C4_Witness ==
    /\ chan # <<>> /\ results # <<>>
    /\ \E t \in Launched : tpc[t] = "nl"

\* C5 (as claimed): whenever a call returns, the Ok results in the Vec, the
\* "success" lines of the file and the invocations that returned Ok are
\* equally many, and likewise for Err and "error".
C5_ErrIsNotFatal ==
    pc = "returned" =>
        LET ls == Lines(file) IN
        /\ NumResults("Ok") = NumEntries(ls, "success")
        /\ NumResults("Ok") = NumInvocations("Ok")
        /\ NumResults("Err") = NumEntries(ls, "error")
        /\ NumResults("Err") = NumInvocations("Err")

\* C6 (as claimed): once a write to the file has failed the call does not
\* return normally, so a returned Vec always has n results.
C6_AllOrNothing ==
    /\ SinkFailed => pc # "returned"
    /\ pc = "returned" => Len(results) = n

\* C7: if File::create fails, the call panics with no task spawned, no
\* invocation of the callable, no result, and nothing written to the file
\* by this call.
C7_OpenFailureBeforeSpawn ==
    created = "Err" =>
        /\ pc = "panicked"
        /\ \A t \in TaskIds : tpc[t] = "unspawned"
        /\ calls = 0
        /\ chan = <<>> /\ results = <<>>
        /\ \A k \in 1..Len(file) : file[k].kind # "nl" => file[k].run # run

\* File::create failed in a call of width >= 2.
C7_Witness == created = "Err" /\ n >= 2 /\ pc = "panicked"

\* C8: once the second call has created the file, the file holds nothing
\* of the first call: it is empty until a task of the second call writes,
\* every piece in it was written by the second call, and when the second
\* call returns with all its n tasks completed the file is exactly their n
\* entries.
C8_RerunTruncates ==
    (run >= 2 /\ created = "Ok") =>
        LET ls == Lines(file) IN
        /\ (\A t \in TaskIds :
               tpc[t] \in {"unspawned", "start", "await", "lock", "body"})
              => file = <<>>
        /\ \A k \in 1..Len(file) : file[k].kind # "nl" => file[k].run = run
        /\ Len(ls) <= n
        /\ (pc = "returned" /\ \A t \in Launched : tpc[t] = "done") =>
              /\ Unterminated(file) = <<>>
              /\ EntryPositions(ls) = 1..n
              /\ Len(ls) = n
              /\ {e.task : e \in Entries(ls)} = 1..n

\* The second of two calls, after a first call of width >= 1, returned with
\* its n >= 1 entries in the file.
C8_Witness ==
    /\ run = 2 /\ script[1] >= 1 /\ n >= 1
    /\ pc = "returned"
    /\ \A t \in Launched : tpc[t] = "done"
    /\ Len(Lines(file)) = n

\* C9: when the call has returned, no spawned task is still invoking the
\* callable, logging or sending: each has finished or has been aborted.
C9_NoTaskOutlivesCall ==
    pc = "returned" => \A t \in TaskIds : ~Running(t)

\* A call of width >= 2 returned, every task having finished.
C9_Witness ==
    /\ pc = "returned" /\ n >= 2
    /\ \A t \in Launched : tpc[t] = "done"

\* C10 (as claimed): at most one task holds the guard, and the file is at
\* every moment a sequence of whole entries.
C10_AlwaysWholeEntries ==
    /\ Cardinality(inCS) <= 1
    /\ Unterminated(file) = <<>>
    /\ EntryPositions(Lines(file)) = 1..Len(Lines(file))

\* C10 (amended): at most one task holds the guard; every line of the file
\* is a whole entry; what follows the last newline is empty or the piece of
\* one entry, which is the text just written by the task that holds the
\* guard, or was left by a write that failed (in this call or an earlier one).
C10_MutualExclusionLineAtomic ==
    LET ls == Lines(file)
        rest == Unterminated(file)
    IN
    /\ Cardinality(inCS) <= 1
    /\ EntryPositions(ls) = 1..Len(ls)
    /\ Len(rest) <= 1
    /\ rest # <<>> =>
          \/ \E t \in inCS :
                /\ tpc[t] = "nl"
                /\ rest[1] = Body(LogEntry(run, t, tres[t]), t)
          \/ SinkFailed
          \/ rest[1].run # run

\* One task is between its two writes, holding the guard, while another
\* waits for the lock and a whole entry is already in the file.
C10_Witness ==
    /\ \E t \in inCS : tpc[t] = "nl"
    /\ \E t \in Launched : tpc[t] = "lock"
    /\ Len(Lines(file)) >= 1
    /\ Unterminated(file) # <<>>
----------------------------------------------------------------------------
\* The launch indices of a sequence of results, in order.
TaskOrder(v) == [k \in 1..Len(v) |-> v[k].task]
\* The launch indices of the writers of the lines ls, in order.
LogOrder(ls) == [k \in 1..Len(ls) |-> ls[k][1].by]
\* The launch indices in launch order.
LaunchOrder == [k \in 1..n |-> k - 1]
\* Tasks that have invoked the callable (line 61).
Called == {t \in TaskIds : tpc[t] \notin {"unspawned", "start"}}
\* Tasks whose whole entry is a line of the file.
Logged(ls) == {e.by : e \in Entries(ls)}

\* C11: under fair scheduling, once the file has been created the call
\* returns (whether or not a write to the file fails), and every spawned
\* task ends: nothing stays blocked on the lock or on the channel.
C11_EventuallyReturns ==
    /\ (created = "Ok") ~> (pc = "returned")
    /\ \A t \in TaskIds : (tpc[t] = "start") ~> (tpc[t] \in {"done", "panicked"})

\* The function waits on the empty channel while one task holds the guard
\* and another waits for the lock.
C11_Witness ==
    /\ pc = "recv" /\ chan = <<>>
    /\ inCS # {}
    /\ \E t \in Launched : tpc[t] = "lock"

\* C13: the channel never holds more than its capacity n, and whenever a
\* task is about to send there is a free slot, so the send does not wait.
C13_SendNeverWaits ==
    /\ Len(chan) <= cap
    /\ (run >= 1 /\ n >= 1) => cap = n
    /\ \A t \in TaskIds : tpc[t] = "send" => Len(chan) < cap

\* Every task of a call of width >= 2 has sent while the function is still
\* at the spawn loop: the channel is full and nothing was received.
C13_Witness ==
    /\ n >= 2 /\ pc = "spawn"
    /\ Len(chan) = n /\ results = <<>>

\* C14: the function's Sender is dropped only when all n tasks are spawned;
\* the function returns only when every clone is dropped and the buffer is
\* empty; and the result of every task that has sent is in the channel or
\* in the Vec, hence in the Vec at return.
C14_CloseIsNotAllDone ==
    /\ (created = "Ok" /\ ~txMain) =>
          (i = n /\ \A t \in Launched : tpc[t] # "unspawned")
    /\ pc = "returned" => (txClones = {} /\ chan = <<>>)
    /\ \A t \in Launched : tpc[t] = "done" =>
          \E k \in 1..Len(results \o chan) : (results \o chan)[k].task = t

\* The function has dropped its Sender and waits on the empty channel while
\* none of its >= 2 tasks has sent yet.
C14_Witness ==
    /\ pc = "recv" /\ n >= 2
    /\ chan = <<>> /\ results = <<>>
    /\ \A t \in Launched : tpc[t] = "start"

\* C15: the invocations of the callable are one per task that has got to
\* line 61, never more than n, and exactly n when the call returns; a task
\* has a result only after its invocation.
C15_OneInvocationPerTask ==
    /\ calls = Cardinality(Called)
    /\ \A t \in Completed : tpc[t] \notin {"unspawned", "start", "await"}
    /\ calls <= n
    /\ pc = "returned" => calls = n

\* A call of width >= 2 returned after n invocations, one of them an Err.
C15_Witness ==
    /\ pc = "returned" /\ n >= 2
    /\ calls = n
    /\ NumInvocations("Err") >= 1

\* C16: the results received and buffered are, in order, the results of
\* the tasks in the order in which their sends entered the channel.
C16_ArrivalOrder ==
    TaskOrder(results \o chan) = arrived

\* A returned call whose result order, log order and launch order are
\* pairwise different.
C16_Witness ==
    /\ pc = "returned" /\ ~SinkFailed /\ n >= 2
    /\ LET ls == Lines(file) IN
       /\ Len(results) = n /\ Len(ls) = n
       /\ TaskOrder(results) # LaunchOrder
       /\ TaskOrder(results) # LogOrder(ls)
       /\ LogOrder(ls) # LaunchOrder

\* C17: a task holds the guard only between file.lock() and the end of its
\* writeln!, never while it awaits the callable or the send.
C17_NoGuardAcrossAwait ==
    \A t \in inCS : tpc[t] \in {"body", "nl"}

\* One task holds the guard while another awaits the callable and a third
\* is about to send.
C17_Witness ==
    /\ inCS # {}
    /\ \E t \in Launched : tpc[t] = "await"
    /\ \E t \in Launched : tpc[t] = "send"

\* C18: the warn! branch is never taken: whenever a task is about to send,
\* the Receiver is alive.
C18_SendNeverFails ==
    /\ ~warned
    /\ \A t \in TaskIds : tpc[t] = "send" => rxAlive

\* The function is already draining and has received a result while a
\* task is about to send.
C18_Witness ==
    /\ pc = "recv" /\ results # <<>>
    /\ \E t \in Launched : tpc[t] = "send"

\* C19: after a failed write the Mutex is poisoned and free, no task is
\* ever inside the critical section again, and the function does not panic;
\* when it returns, every task has ended or panicked, and the Vec holds
\* exactly the results of the tasks whose whole entry is in the file.
C19_PoisonedSink ==
    poisoned =>
        /\ inCS = {}
        /\ \A t \in TaskIds : tpc[t] \notin {"body", "nl"}
        /\ pc \in {"spawn", "recv", "returned"}
        /\ pc = "returned" =>
              LET ls == Lines(file) IN
              /\ \A t \in Launched : tpc[t] \in {"done", "panicked"}
              /\ {t \in Launched : tpc[t] = "done"} = Logged(ls)
              /\ {results[k].task : k \in 1..Len(results)} = Logged(ls)
              /\ Len(results) = Cardinality(Logged(ls))

\* A call returned a partial Vec: one task appended and sent, one failed
\* its write, and one panicked on the poisoned lock.
C19_Witness ==
    /\ pc = "returned" /\ poisoned
    /\ Len(results) >= 1
    /\ Cardinality({t \in Launched : tpc[t] = "panicked"}) >= 2

\* The tasks of create_multiple_files that are spawned and have not ended.
InFlight == {k \in FileIds : ftask[k] \in {"folder", "create", "write", "rest"}}
\* The handle of file k has been awaited to completion.
Joined(k) == fnext > k \/ (fnext = k /\ fpc \in {"loop", "returned"})

\* C12 (as claimed): the files are created concurrently: the task of a
\* later file is spawned before the task of the file before it has been
\* awaited to completion.
C12_SpawnedBeforeEarlierJoined ==
    \A k \in FileIds :
        (k < nfiles /\ Joined(k)) => ftask[k + 1] # "unspawned"

\* The code's actual order: at most one file-creation task is ever in flight.
C12_AtMostOneInFlight == Cardinality(InFlight) <= 1

\* C20: create_multiple_files never returns an error; when it returns,
\* it returns Ok(()), every listed file has been attempted, and the files
\* whose create_file failed are exactly those for which the error was logged.
C20_ErrorsOnlyLogged ==
    /\ fret \in {"None", "Ok"}
    /\ fpc = "returned" =>
          /\ fret = "Ok"
          /\ \A k \in 1..nfiles :
                /\ ftask[k] = "done"
                /\ fres[k] \in {"Ok", "Err"}
                /\ (fres[k] = "Err") <=> (k \in flogged)

\* Ok(()) was returned although create_file failed for the first file, and
\* the second file was still attempted and written.
C20_Witness ==
    /\ fpc = "returned" /\ fret = "Ok" /\ nfiles >= 2
    /\ fres[1] = "Err" /\ 1 \in flogged
    /\ fres[2] = "Ok" /\ disk[2] = "written"
====
